---------------------------- MODULE Spec2Model ----------------------------
(***************************************************************************)
(* CRVVerifier (crates/crv_verifier/src/verifier.rs): one Verifier holding *)
(* immutable PolicyConstraints; verify(stats, fills, equity_history) builds *)
(* a CRVReport by running check_metric_correctness, check_lookahead_bias   *)
(* and check_policy_constraints in that order.                             *)
(*                                                                         *)
(* Numbers.  An f64 is modelled as an exact rational n/d (kind "fin"), or  *)
(* NaN, or +/-infinity; comparisons follow IEEE-754 (every comparison with *)
(* NaN is false).  Rounding of finite arithmetic is not modelled: finite   *)
(* results are exact.  Equity values are finite.  A BacktestStats carries  *)
(* only the two fields verify reads (sharpe_ratio, max_drawdown) and a     *)
(* Fill only its timestamp.                                                *)
(***************************************************************************)
EXTENDS Integers, Sequences, FiniteSets, TLC

VARIABLES constraints, pc, stats, fills, equity_history, report, computed_dd, i, prev

vars == <<constraints, pc, stats, fills, equity_history, report, computed_dd, i, prev>>

----------------------------------------------------------------------------
(* f64 values *)

RECURSIVE GCD(_, _)
GCD(a, b) == IF b = 0 THEN a ELSE GCD(b, a % b)

AbsInt(a) == IF a < 0 THEN -a ELSE a

\* the rational n/d, d # 0, in lowest terms with a positive denominator
Rat(n, d) ==
    LET s == IF d < 0 THEN -1 ELSE 1
        g == GCD(AbsInt(n), AbsInt(d))
    IN [kind |-> "fin", n |-> (s * n) \div g, d |-> (s * d) \div g]

NaN == [kind |-> "nan", n |-> 0, d |-> 1]
PosInf == [kind |-> "inf", n |-> 1, d |-> 1]
NegInf == [kind |-> "inf", n |-> -1, d |-> 1]

is_finite(x) == x.kind = "fin"

\* x > y on f64: false when either is NaN
FGt(x, y) ==
    CASE x.kind = "nan" \/ y.kind = "nan" -> FALSE
      [] x.kind = "fin" /\ y.kind = "fin" -> x.n * y.d > y.n * x.d
      [] x.kind = "inf" /\ y.kind = "inf" -> x.n > y.n
      [] x.kind = "inf" -> x.n > 0
      [] OTHER -> y.n < 0

FLt(x, y) == FGt(y, x)

\* x - y on f64
FSub(x, y) ==
    CASE x.kind = "nan" \/ y.kind = "nan" -> NaN
      [] x.kind = "fin" /\ y.kind = "fin" -> Rat(x.n * y.d - y.n * x.d, x.d * y.d)
      [] x.kind = "inf" /\ y.kind = "inf" -> IF x.n = y.n THEN NaN ELSE x
      [] x.kind = "inf" -> x
      [] OTHER -> IF y.n > 0 THEN NegInf ELSE PosInf

\* x / y for finite x and finite y # 0 (the only division verify performs)
FDiv(x, y) == Rat(x.n * y.d, x.d * y.n)

\* x * k for a finite positive literal k
FMul(x, k) ==
    CASE x.kind = "nan" -> NaN
      [] x.kind = "inf" -> x
      [] OTHER -> Rat(x.n * k.n, x.d * k.d)

\* f64::abs
FAbs(x) ==
    CASE x.kind = "nan" -> NaN
      [] x.kind = "inf" -> PosInf
      [] OTHER -> [x EXCEPT !.n = AbsInt(x.n)]

RECURSIVE Pow10(_)
Pow10(p) == IF p = 0 THEN 1 ELSE 10 * Pow10(p - 1)

\* a/b (b > 0) rounded to the nearest integer, ties to even
RoundHalfEven(a, b) ==
    LET q == a \div b
        r == a - q * b
    IN  IF 2 * r < b THEN q
        ELSE IF 2 * r > b THEN q + 1
        ELSE IF q % 2 = 0 THEN q ELSE q + 1

\* format!("{:.p}", x): the decimal with p fractional digits, as the integer
\* number of 10^-p units; "NaN", "inf" and "-inf" keep their kind and sign
Fmt(x, p) ==
    IF x.kind = "fin"
    THEN [kind |-> "fin", units |-> RoundHalfEven(x.n * Pow10(p), x.d), places |-> p]
    ELSE [kind |-> x.kind, units |-> x.n, places |-> p]

\* format!("{}", k) of an integer
FmtInt(k) == [kind |-> "int", units |-> k, places |-> 0]

----------------------------------------------------------------------------
(* Option<f64>, PolicyConstraints *)

None == [some |-> FALSE, val |-> NaN]
Some(x) == [some |-> TRUE, val |-> x]

PolicyConstraints(dd, lev, turn) ==
    [max_drawdown |-> dd, max_leverage |-> lev, max_turnover |-> turn]

DefaultConstraints == PolicyConstraints(Some(Rat(1, 4)), Some(Rat(2, 1)), None)

----------------------------------------------------------------------------
(* CRVReport, CRVViolation (crate::types) *)

Text(fmt, args) == [fmt |-> fmt, args |-> args]

CRVViolation(rule, sev, msg, ev) ==
    [rule_id |-> rule, severity |-> sev, message |-> msg, evidence |-> ev]

\* CRVReport::new(timestamp)
CRVReport_new(ts) == [timestamp |-> ts, violations |-> <<>>, passed |-> TRUE]

\* CRVReport::add_violation(&mut self, v)
add_violation(r, v) ==
    [r EXCEPT !.violations = Append(@, v), !.passed = FALSE]

\* CRVReport::violation_count
violation_count(r) == Len(r.violations)

\* the value of `report` while no verify call has been made
NoReport == [timestamp |-> -1, violations |-> <<>>, passed |-> FALSE]

----------------------------------------------------------------------------
(* literals of verifier.rs *)

ZERO == Rat(0, 1)
ONE == Rat(1, 1)
SHARPE_LIMIT == Rat(10, 1)
DD_TOLERANCE == Rat(1, 100)
HUNDRED == Rat(100, 1)

----------------------------------------------------------------------------
(* the violations verify builds *)

SharpeViolation(s) ==
    CRVViolation("SharpeRatioValidation", "Medium",
        Text("Sharpe ratio value is unrealistically high: {:.2}", <<Fmt(s.sharpe_ratio, 2)>>),
        << Text("Sharpe ratios above 10 are extremely rare in practice", <<>>),
           Text("Verify annualization is correct (sqrt(252) for daily data)", <<>>) >>)

DrawdownBoundsViolation(s) ==
    CRVViolation("MaxDrawdownValidation", "Critical",
        Text("Max drawdown is out of bounds [0, 1]: {:.4}", <<Fmt(s.max_drawdown, 4)>>),
        << Text("Max drawdown should be between 0 and 1 (0% to 100%)", <<>>) >>)

DrawdownMismatchViolation(s, dd, diff) ==
    CRVViolation("MaxDrawdownValidation", "High",
        Text("Max drawdown calculation mismatch: reported {:.4} vs computed {:.4}",
             <<Fmt(s.max_drawdown, 4), Fmt(dd, 4)>>),
        << Text("Difference: {:.4}", <<Fmt(diff, 4)>>) >>)

\* k is the 0-based index of the code
FillTimestampViolation(f, k) ==
    CRVViolation("LookaheadBias", "Critical",
        Text("Fill has invalid timestamp", <<>>),
        << Text("Fill #{}: timestamp = {}", <<FmtInt(k), FmtInt(f[k + 1].timestamp)>>) >>)

FillOrderViolation(f, k) ==
    CRVViolation("LookaheadBias", "Critical",
        Text("Fills are not in chronological order", <<>>),
        << Text("Fill #{} (t={}) occurs before Fill #{} (t={})",
                <<FmtInt(k), FmtInt(f[k + 1].timestamp),
                  FmtInt(k - 1), FmtInt(f[k].timestamp)>>) >>)

EquityOrderViolation(eq, k) ==
    CRVViolation("LookaheadBias", "Critical",
        Text("Equity history is not in chronological order", <<>>),
        << Text("Point #{} (t={}) occurs before Point #{} (t={})",
                <<FmtInt(k), FmtInt(eq[k + 1][1]),
                  FmtInt(k - 1), FmtInt(eq[k][1])>>) >>)

DrawdownConstraintViolation(s, max_dd) ==
    CRVViolation("MaxDrawdownConstraint", "High",
        Text("Max drawdown {:.2}% exceeds limit {:.2}%",
             <<Fmt(FMul(s.max_drawdown, HUNDRED), 2), Fmt(FMul(max_dd, HUNDRED), 2)>>),
        << Text("Observed: {:.4}", <<Fmt(s.max_drawdown, 4)>>),
           Text("Limit: {:.4}", <<Fmt(max_dd, 4)>>) >>)

LeverageViolation(eq, k, max_leverage) ==
    CRVViolation("MaxLeverageConstraint", "Critical",
        Text("Negative equity detected (bankruptcy)", <<>>),
        << Text("Point #{}: timestamp={}, equity={:.2}",
                <<FmtInt(k), FmtInt(eq[k + 1][1]), Fmt(eq[k + 1][2], 2)>>),
           Text("Max leverage limit: {:.2}x", <<Fmt(max_leverage, 2)>>) >>)

----------------------------------------------------------------------------
(* compute_max_drawdown *)

\* the for loop, from element k (1-based) on, with the two locals
RECURSIVE drawdown_loop(_, _, _, _)
drawdown_loop(eq, k, max_equity, max_drawdown) ==
    IF k > Len(eq) THEN max_drawdown
    ELSE LET equity == eq[k][2]
             peak == IF FGt(equity, max_equity) THEN equity ELSE max_equity
             drawdown == FDiv(FSub(peak, equity), peak)
             worst == IF FGt(peak, ZERO) /\ FGt(drawdown, max_drawdown)
                      THEN drawdown ELSE max_drawdown
         IN drawdown_loop(eq, k + 1, peak, worst)

\* mutant: the peak stays the first equity value
RECURSIVE drawdown_loop_FixedPeak(_, _, _, _)
drawdown_loop_FixedPeak(eq, k, max_equity, max_drawdown) ==
    IF k > Len(eq) THEN max_drawdown
    ELSE LET equity == eq[k][2]
             drawdown == FDiv(FSub(max_equity, equity), max_equity)
             worst == IF FGt(max_equity, ZERO) /\ FGt(drawdown, max_drawdown)
                      THEN drawdown ELSE max_drawdown
         IN drawdown_loop_FixedPeak(eq, k + 1, max_equity, worst)

compute_max_drawdown_FixedPeak(eq) ==
    IF Len(eq) = 0 THEN ZERO
    ELSE drawdown_loop_FixedPeak(eq, 1, eq[1][2], ZERO)

\* mutant: the running maximum starts at f64::NEG_INFINITY instead of 0.0
compute_max_drawdown_NegInfStart(eq) ==
    IF Len(eq) = 0 THEN ZERO
    ELSE drawdown_loop(eq, 1, eq[1][2], NegInf)

compute_max_drawdown(eq) ==
    IF Len(eq) = 0 THEN ZERO
    ELSE drawdown_loop(eq, 1, eq[1][2], ZERO)

----------------------------------------------------------------------------
(* inputs *)

MaxFills == 2
MaxEquity == 2

SeqsUpTo(S, n) == UNION {[1..k -> S] : k \in 0..n}

Fill(t) == [timestamp |-> t]
BacktestStats(sharpe, dd) == [sharpe_ratio |-> sharpe, max_drawdown |-> dd]

\* the equity history of test_verifier_passes_valid_backtest
ValidEquity ==
    << <<1000, Rat(100000, 1)>>, <<2000, Rat(105000, 1)>>,
       <<3000, Rat(99750, 1)>>, <<4000, Rat(110000, 1)>> >>

\* the equity history of test_verifier_detects_negative_equity
BankruptEquity ==
    << <<1000, Rat(100000, 1)>>, <<2000, Rat(-10000, 1)>>, <<3000, Rat(110000, 1)>> >>

\* the fills of test_verifier_detects_out_of_order_fills
OutOfOrderFills == << Fill(2000), Fill(1000) >>

\* fills in strictly increasing order
IncreasingFills == << Fill(1000), Fill(2000) >>

\* three fills, each earlier than its predecessor
ReversedFills == << Fill(3000), Fill(2000), Fill(1000) >>

\* three points, each earlier than its predecessor, two of them insolvent
ReversedEquity ==
    << <<3000, Rat(100000, 1)>>, <<2000, Rat(-10000, 1)>>, <<1000, Rat(-20000, 1)>> >>

SharpeValues == {NaN, PosInf, Rat(3, 2), Rat(10, 1), Rat(-15, 1)}
DrawdownValues ==
    {NaN, Rat(-1, 20), Rat(1, 20), Rat(3, 50), Rat(3, 20), Rat(1, 5), Rat(3, 2)}
FillTimes == {0, 1000}
EquityPoints ==
    { <<1000, Rat(100000, 1)>>, <<2000, Rat(95000, 1)>>, <<2000, Rat(-10000, 1)>> }

StatsInputs == {BacktestStats(sh, dd) : sh \in SharpeValues, dd \in DrawdownValues}
FillsInputs ==
    SeqsUpTo({Fill(t) : t \in FillTimes}, MaxFills)
    \cup {OutOfOrderFills, IncreasingFills, ReversedFills}
EquityInputs ==
    SeqsUpTo(EquityPoints, MaxEquity) \cup {ValidEquity, BankruptEquity, ReversedEquity}

ConstraintsInputs ==
    { DefaultConstraints,
      PolicyConstraints(Some(Rat(1, 10)), Some(Rat(2, 1)), None),
      PolicyConstraints(Some(Rat(3, 20)), None, Some(Rat(5, 1))),
      PolicyConstraints(None, None, None) }

\* the inputs of the calls made one after another on one Verifier
ReuseStats == {BacktestStats(Rat(3, 2), Rat(1, 20)), BacktestStats(Rat(-15, 1), Rat(3, 2))}
ReuseFills == {<<>>, OutOfOrderFills}
ReuseEquity == {<<>>, ValidEquity, BankruptEquity}

NoStats == BacktestStats(NaN, NaN)
NoPrev == [set |-> FALSE, between |-> FALSE, constraints |-> PolicyConstraints(None, None, None),
           stats |-> NoStats, fills |-> <<>>, equity_history |-> <<>>,
           violations |-> <<>>]

----------------------------------------------------------------------------
(* CRVVerifier::new / with_defaults, and the caller's data *)

Init ==
    /\ constraints \in ConstraintsInputs
    /\ stats \in StatsInputs
    /\ fills \in FillsInputs
    /\ equity_history \in EquityInputs
    /\ pc = "idle"
    /\ report = NoReport
    /\ computed_dd = ZERO
    /\ i = 0
    /\ prev = NoPrev

----------------------------------------------------------------------------
(* verify *)

\* mutant: an empty history gives the sentinel -1
LastTimestamp_Sentinel(eq) == IF Len(eq) = 0 THEN -1 ELSE eq[Len(eq)][1]

\* equity_history.last().map(|(t, _)| *t).unwrap_or(0)
LastTimestamp(eq) == IF Len(eq) = 0 THEN 0 ELSE eq[Len(eq)][1]

\* mutant: a report left by an earlier call is kept and only re-stamped
Verify_KeepsReport ==
    /\ pc = "idle"
    /\ report' =
         IF report = NoReport
         THEN CRVReport_new(IF Len(equity_history) = 0 THEN 0
                            ELSE equity_history[Len(equity_history)][1])
         ELSE [report EXCEPT !.timestamp = IF Len(equity_history) = 0 THEN 0
                                           ELSE equity_history[Len(equity_history)][1]]
    /\ computed_dd' = ZERO
    /\ i' = 0
    /\ pc' = "sharpe"
    /\ UNCHANGED <<constraints, stats, fills, equity_history, prev>>

\* entry of verify(stats, fills, equity_history): a fresh report
Verify ==
    /\ pc = "idle"
    /\ report' = CRVReport_new(LastTimestamp(equity_history))
    /\ computed_dd' = ZERO
    /\ i' = 0
    /\ pc' = "sharpe"
    /\ UNCHANGED <<constraints, stats, fills, equity_history, prev>>

\* check_metric_correctness: Sharpe plausibility
CheckSharpe ==
    /\ pc = "sharpe"
    /\ report' =
         IF /\ is_finite(stats.sharpe_ratio)
            /\ FGt(FAbs(stats.sharpe_ratio), ZERO)
            /\ FGt(FAbs(stats.sharpe_ratio), SHARPE_LIMIT)
         THEN add_violation(report, SharpeViolation(stats))
         ELSE report
    /\ pc' = "dd_bounds"
    /\ UNCHANGED <<constraints, stats, fills, equity_history, computed_dd, i, prev>>

\* mutant: the violation is pushed onto report.violations directly
CheckDrawdownBounds_DirectPush ==
    /\ pc = "dd_bounds"
    /\ report' =
         IF FLt(stats.max_drawdown, ZERO) \/ FGt(stats.max_drawdown, ONE)
         THEN [report EXCEPT !.violations = Append(@, DrawdownBoundsViolation(stats))]
         ELSE report
    /\ pc' = "dd_recompute"
    /\ UNCHANGED <<constraints, stats, fills, equity_history, computed_dd, i, prev>>

\* mutant: only the upper bound is tested
CheckDrawdownBounds_UpperOnly ==
    /\ pc = "dd_bounds"
    /\ report' =
         IF FGt(stats.max_drawdown, ONE)
         THEN add_violation(report, DrawdownBoundsViolation(stats))
         ELSE report
    /\ pc' = "dd_recompute"
    /\ UNCHANGED <<constraints, stats, fills, equity_history, computed_dd, i, prev>>

\* check_metric_correctness: drawdown bounds
CheckDrawdownBounds ==
    /\ pc = "dd_bounds"
    /\ report' =
         IF FLt(stats.max_drawdown, ZERO) \/ FGt(stats.max_drawdown, ONE)
         THEN add_violation(report, DrawdownBoundsViolation(stats))
         ELSE report
    /\ pc' = "dd_recompute"
    /\ UNCHANGED <<constraints, stats, fills, equity_history, computed_dd, i, prev>>

\* mutant: verify returns after the metric group when it found a violation
CheckDrawdownRecompute_ShortCircuit ==
    /\ pc = "dd_recompute"
    /\ LET dd == compute_max_drawdown(equity_history)
           dd_diff == FAbs(FSub(stats.max_drawdown, dd))
       IN /\ computed_dd' = dd
          /\ report' =
               IF FGt(dd_diff, DD_TOLERANCE)
               THEN add_violation(report, DrawdownMismatchViolation(stats, dd, dd_diff))
               ELSE report
    /\ pc' = IF report'.passed THEN "fill_ts" ELSE "done"
    /\ i' = 0
    /\ UNCHANGED <<constraints, stats, fills, equity_history, prev>>

\* check_metric_correctness: drawdown recomputation, then Ok(())
CheckDrawdownRecompute ==
    /\ pc = "dd_recompute"
    /\ LET dd == compute_max_drawdown(equity_history)
           dd_diff == FAbs(FSub(stats.max_drawdown, dd))
       IN /\ computed_dd' = dd
          /\ report' =
               IF FGt(dd_diff, DD_TOLERANCE)
               THEN add_violation(report, DrawdownMismatchViolation(stats, dd, dd_diff))
               ELSE report
    /\ pc' = "fill_ts"
    /\ i' = 0
    /\ UNCHANGED <<constraints, stats, fills, equity_history, prev>>

\* check_lookahead_bias: for (i, fill) in fills.iter().enumerate()
CheckFillTimestamp ==
    /\ pc = "fill_ts"
    /\ IF i < Len(fills)
       THEN /\ report' =
                 IF fills[i + 1].timestamp <= 0
                 THEN add_violation(report, FillTimestampViolation(fills, i))
                 ELSE report
            /\ i' = i + 1
            /\ pc' = pc
       ELSE /\ report' = report
            /\ i' = 1
            /\ pc' = "fill_order"
    /\ UNCHANGED <<constraints, stats, fills, equity_history, computed_dd, prev>>

\* mutant: equal timestamps count as out of order
CheckFillOrder_NonStrict ==
    /\ pc = "fill_order"
    /\ IF i < Len(fills)
       THEN /\ report' =
                 IF fills[i + 1].timestamp <= fills[i].timestamp
                 THEN add_violation(report, FillOrderViolation(fills, i))
                 ELSE report
            /\ i' = i + 1
            /\ pc' = pc
       ELSE /\ report' = report
            /\ i' = 1
            /\ pc' = "equity_order"
    /\ UNCHANGED <<constraints, stats, fills, equity_history, computed_dd, prev>>

\* check_lookahead_bias: for i in 1..fills.len()
CheckFillOrder ==
    /\ pc = "fill_order"
    /\ IF i < Len(fills)
       THEN /\ report' =
                 IF fills[i + 1].timestamp < fills[i].timestamp
                 THEN add_violation(report, FillOrderViolation(fills, i))
                 ELSE report
            /\ i' = i + 1
            /\ pc' = pc
       ELSE /\ report' = report
            /\ i' = 1
            /\ pc' = "equity_order"
    /\ UNCHANGED <<constraints, stats, fills, equity_history, computed_dd, prev>>

\* check_lookahead_bias: for i in 1..equity_history.len(), then Ok(())
CheckEquityOrder ==
    /\ pc = "equity_order"
    /\ IF i < Len(equity_history)
       THEN /\ report' =
                 IF equity_history[i + 1][1] < equity_history[i][1]
                 THEN add_violation(report, EquityOrderViolation(equity_history, i))
                 ELSE report
            /\ i' = i + 1
            /\ pc' = pc
       ELSE /\ report' = report
            /\ i' = 0
            /\ pc' = "policy_dd"
    /\ UNCHANGED <<constraints, stats, fills, equity_history, computed_dd, prev>>

\* mutant: a reported value equal to the bound is a violation
CheckDrawdownConstraint_NonStrict ==
    /\ pc = "policy_dd"
    /\ report' =
         IF /\ constraints.max_drawdown.some
            /\ ~FLt(stats.max_drawdown, constraints.max_drawdown.val)
            /\ stats.max_drawdown.kind # "nan"
         THEN add_violation(report,
                  DrawdownConstraintViolation(stats, constraints.max_drawdown.val))
         ELSE report
    /\ pc' = "policy_leverage"
    /\ i' = 0
    /\ UNCHANGED <<constraints, stats, fills, equity_history, computed_dd, prev>>

\* check_policy_constraints: max drawdown constraint
CheckDrawdownConstraint ==
    /\ pc = "policy_dd"
    /\ report' =
         IF /\ constraints.max_drawdown.some
            /\ FGt(stats.max_drawdown, constraints.max_drawdown.val)
         THEN add_violation(report,
                  DrawdownConstraintViolation(stats, constraints.max_drawdown.val))
         ELSE report
    /\ pc' = "policy_leverage"
    /\ i' = 0
    /\ UNCHANGED <<constraints, stats, fills, equity_history, computed_dd, prev>>

\* mutant: the scan does not break at the first negative point
CheckLeverageConstraint_NoBreak ==
    /\ pc = "policy_leverage"
    /\ IF constraints.max_leverage.some /\ i < Len(equity_history)
       THEN /\ report' =
                 IF FLt(equity_history[i + 1][2], ZERO)
                 THEN add_violation(report,
                        LeverageViolation(equity_history, i, constraints.max_leverage.val))
                 ELSE report
            /\ i' = i + 1
            /\ pc' = pc
       ELSE /\ report' = report
            /\ i' = i
            /\ pc' = "done"
    /\ UNCHANGED <<constraints, stats, fills, equity_history, computed_dd, prev>>

\* check_policy_constraints: leverage constraint (negative equity scan, break at
\* the first hit), then Ok(()) and verify's Ok(report)
CheckLeverageConstraint ==
    /\ pc = "policy_leverage"
    /\ IF constraints.max_leverage.some /\ i < Len(equity_history)
       THEN IF FLt(equity_history[i + 1][2], ZERO)
            THEN /\ report' = add_violation(report,
                        LeverageViolation(equity_history, i, constraints.max_leverage.val))
                 /\ i' = i
                 /\ pc' = "done"
            ELSE /\ report' = report
                 /\ i' = i + 1
                 /\ pc' = pc
       ELSE /\ report' = report
            /\ i' = i
            /\ pc' = "done"
    /\ UNCHANGED <<constraints, stats, fills, equity_history, computed_dd, prev>>

Checks ==
    \/ CheckSharpe
    \/ CheckDrawdownBounds
    \/ CheckDrawdownRecompute
    \/ CheckFillTimestamp
    \/ CheckFillOrder
    \/ CheckEquityOrder
    \/ CheckDrawdownConstraint
    \/ CheckLeverageConstraint

Next == Verify \/ Checks

Spec == Init /\ [][Next]_vars

----------------------------------------------------------------------------
(* one Verifier, many verify calls *)

\* the finished call, as the caller saw it
Finished ==
    [set |-> TRUE, between |-> FALSE, constraints |-> constraints, stats |-> stats, fills |-> fills,
     equity_history |-> equity_history, violations |-> report.violations]

\* the caller keeps the returned report (and may keep a copy of the call for
\* later comparison) and prepares the arguments of the next call
CallAgain ==
    /\ pc = "done"
    /\ \E s \in ReuseStats, f \in ReuseFills, eq \in ReuseEquity :
         /\ stats' = s
         /\ fills' = f
         /\ equity_history' = eq
    /\ prev' \in (IF prev.set
                 THEN {[prev EXCEPT !.between = @ \/ Finished.stats # prev.stats
                                               \/ Finished.fills # prev.fills
                                               \/ Finished.equity_history # prev.equity_history]}
                 ELSE {prev, Finished})
    /\ pc' = "idle"
    /\ UNCHANGED <<constraints, report, computed_dd, i>>

InitReuse ==
    /\ constraints \in ConstraintsInputs
    /\ stats \in ReuseStats
    /\ fills \in ReuseFills
    /\ equity_history \in ReuseEquity
    /\ pc = "idle"
    /\ report = NoReport
    /\ computed_dd = ZERO
    /\ i = 0
    /\ prev = NoPrev

NextReuse == Verify \/ Checks \/ CallAgain

SpecReuse == InitReuse /\ [][NextReuse]_vars

----------------------------------------------------------------------------
(* properties *)

Done == pc = "done"

CountWhere(seq, P(_)) == Cardinality({k \in DOMAIN seq : P(seq[k])})

Is(v, rule, sev) == v.rule_id = rule /\ v.severity = sev

\* the 0-based positions k >= 1 of a timestamp sequence that are earlier than
\* their predecessor
Inversions(ts) == {k \in 1..(Len(ts) - 1) : ts[k + 1] < ts[k]}

FillTimestamps == [k \in DOMAIN fills |-> fills[k].timestamp]
EquityTimestamps == [k \in DOMAIN equity_history |-> equity_history[k][1]]

\* the 1-based positions of the insolvent points
Negative(eq) == {k \in DOMAIN eq : FLt(eq[k][2], ZERO)}

\* C1: whenever a report exists (during the checks and on return), passed is
\* true exactly when the violation list is empty
C1_PassedIffNoViolations ==
    pc # "idle" => (report.passed <=> report.violations = <<>>)

\* a report under construction that already holds a violation
C1_Witness ==
    /\ pc = "fill_order"
    /\ Len(report.violations) >= 2
    /\ ~report.passed

\* C4: the report holds one Critical MaxDrawdownValidation violation when the
\* reported max_drawdown is below 0 or above 1, and none when it lies in [0, 1]
C4_DrawdownBounds ==
    Done =>
      LET n == CountWhere(report.violations,
                   LAMBDA v : Is(v, "MaxDrawdownValidation", "Critical"))
          dd == stats.max_drawdown
      IN /\ (FGt(dd, ONE) \/ FLt(dd, ZERO)) => n = 1
         /\ (~FLt(dd, ZERO) /\ ~FGt(dd, ONE)) => n = 0

\* reported 1.5 over a non-empty equity history
C4_Witness ==
    /\ Done
    /\ stats.max_drawdown = Rat(3, 2)
    /\ Len(equity_history) > 0
    /\ CountWhere(report.violations,
           LAMBDA v : Is(v, "MaxDrawdownValidation", "Critical")) = 1

\* C2 as stated: with empty fills and empty equity history the report has
\* timestamp 0 and holds nothing but Sharpe-plausibility and drawdown-bounds
\* violations
C2_OnlySharpeAndBounds ==
    (Done /\ fills = <<>> /\ equity_history = <<>>) =>
      /\ report.timestamp = 0
      /\ \A k \in DOMAIN report.violations :
            \/ Is(report.violations[k], "SharpeRatioValidation", "Medium")
            \/ Is(report.violations[k], "MaxDrawdownValidation", "Critical")

\* C2 amended: with empty fills and empty equity history the report has
\* timestamp 0 and holds only stats-driven violations (Sharpe plausibility,
\* drawdown bounds, drawdown mismatch against the recomputed value 0,
\* max-drawdown constraint): no LookaheadBias and no MaxLeverageConstraint
C2_OnlyStatsDrivenChecks ==
    (Done /\ fills = <<>> /\ equity_history = <<>>) =>
      /\ report.timestamp = 0
      /\ computed_dd = ZERO
      /\ \A k \in DOMAIN report.violations :
            \/ Is(report.violations[k], "SharpeRatioValidation", "Medium")
            \/ Is(report.violations[k], "MaxDrawdownValidation", "Critical")
            \/ /\ Is(report.violations[k], "MaxDrawdownValidation", "High")
               /\ FGt(FAbs(stats.max_drawdown), DD_TOLERANCE)
            \/ /\ Is(report.violations[k], "MaxDrawdownConstraint", "High")
               /\ constraints.max_drawdown.some

\* empty inputs whose report holds a mismatch and a constraint violation
C2_Witness ==
    /\ Done
    /\ fills = <<>>
    /\ equity_history = <<>>
    /\ report.timestamp = 0
    /\ \E k \in DOMAIN report.violations :
          Is(report.violations[k], "MaxDrawdownValidation", "High")
    /\ \E k \in DOMAIN report.violations :
          Is(report.violations[k], "MaxDrawdownConstraint", "High")

\* the elements V(k) for the positions k of 0..n-1 that satisfy P, in order
Gather(n, P(_), V(_)) ==
    LET hits == SelectSeq([k \in 1..n |-> k - 1], P)
    IN [j \in DOMAIN hits |-> V(hits[j])]

\* what check_metric_correctness reports for (stats, equity_history)
MetricGroup(s, eq) ==
    LET dd == compute_max_drawdown(eq)
        diff == FAbs(FSub(s.max_drawdown, dd))
    IN (IF is_finite(s.sharpe_ratio) /\ FGt(FAbs(s.sharpe_ratio), SHARPE_LIMIT)
        THEN <<SharpeViolation(s)>> ELSE <<>>)
       \o (IF FLt(s.max_drawdown, ZERO) \/ FGt(s.max_drawdown, ONE)
           THEN <<DrawdownBoundsViolation(s)>> ELSE <<>>)
       \o (IF FGt(diff, DD_TOLERANCE)
           THEN <<DrawdownMismatchViolation(s, dd, diff)>> ELSE <<>>)

\* what check_lookahead_bias reports for (fills, equity_history)
LookaheadGroup(f, eq) ==
    Gather(Len(f), LAMBDA k : f[k + 1].timestamp <= 0,
                   LAMBDA k : FillTimestampViolation(f, k))
    \o Gather(Len(f), LAMBDA k : k >= 1 /\ f[k + 1].timestamp < f[k].timestamp,
                      LAMBDA k : FillOrderViolation(f, k))
    \o Gather(Len(eq), LAMBDA k : k >= 1 /\ eq[k + 1][1] < eq[k][1],
                       LAMBDA k : EquityOrderViolation(eq, k))

\* what check_policy_constraints reports for (constraints, stats, equity_history)
PolicyGroup(c, s, eq) ==
    (IF c.max_drawdown.some /\ FGt(s.max_drawdown, c.max_drawdown.val)
     THEN <<DrawdownConstraintViolation(s, c.max_drawdown.val)>> ELSE <<>>)
    \o (IF c.max_leverage.some /\ Negative(eq) # {}
        THEN <<LeverageViolation(eq,
                   (CHOOSE k \in Negative(eq) : \A m \in Negative(eq) : k <= m) - 1,
                   c.max_leverage.val)>>
        ELSE <<>>)

\* C3: the returned violation list is the metric group's violations, then the
\* lookahead group's, then the policy group's, each a function of the inputs and
\* the constraints alone
C3_AllGroupsRunInOrder ==
    Done =>
      report.violations =
        MetricGroup(stats, equity_history)
        \o LookaheadGroup(fills, equity_history)
        \o PolicyGroup(constraints, stats, equity_history)

\* a returned report in which all three groups added a violation
C3_Witness ==
    /\ Done
    /\ MetricGroup(stats, equity_history) # <<>>
    /\ LookaheadGroup(fills, equity_history) # <<>>
    /\ PolicyGroup(constraints, stats, equity_history) # <<>>
    /\ Len(report.violations) >= 3

\* the largest element of a non-empty set of finite values
FMax(S) == CHOOSE m \in S : \A x \in S : ~FGt(x, m)

\* the running peak at 1-based position k: the maximum equity of eq[1..k]
RunningPeak(eq, k) == FMax({eq[j][2] : j \in 1..k})

\* R of C5: the largest (peak - equity)/peak over the positions whose running
\* peak is positive, 0 when there is none
RunningPeakDrawdown(eq) ==
    LET at == {k \in DOMAIN eq : FGt(RunningPeak(eq, k), ZERO)}
        ratios == {FDiv(FSub(RunningPeak(eq, k), eq[k][2]), RunningPeak(eq, k)) : k \in at}
    IN IF ratios = {} THEN ZERO ELSE FMax(ratios)

MismatchCount ==
    CountWhere(report.violations, LAMBDA v : Is(v, "MaxDrawdownValidation", "High"))

\* C5: the report holds one High MaxDrawdownValidation violation when the
\* reported max_drawdown differs from the running-peak drawdown R of the equity
\* history by more than 0.01, and none otherwise; the history of the valid
\* backtest has R = 0.05, so reported 0.05 gives none and reported 0.20 gives one
C5_DrawdownMismatch ==
    Done =>
      /\ computed_dd = RunningPeakDrawdown(equity_history)
      /\ MismatchCount =
           IF FGt(FAbs(FSub(stats.max_drawdown, RunningPeakDrawdown(equity_history))),
                  Rat(1, 100))
           THEN 1 ELSE 0
      /\ equity_history = ValidEquity =>
           /\ computed_dd = Rat(1, 20)
           /\ stats.max_drawdown = Rat(1, 20) => MismatchCount = 0
           /\ stats.max_drawdown = Rat(1, 5) => MismatchCount = 1

\* the valid backtest's history with a reported drawdown of 0.20
C5_Witness ==
    /\ Done
    /\ equity_history = ValidEquity
    /\ stats.max_drawdown = Rat(1, 5)
    /\ computed_dd = Rat(1, 20)
    /\ MismatchCount = 1

FillOrderCount ==
    CountWhere(report.violations,
        LAMBDA v : /\ Is(v, "LookaheadBias", "Critical")
                   /\ v.message.fmt = "Fills are not in chronological order")

EquityOrderCount ==
    CountWhere(report.violations,
        LAMBDA v : /\ Is(v, "LookaheadBias", "Critical")
                   /\ v.message.fmt = "Equity history is not in chronological order")

\* C6: for the fills and for the equity history, the report holds one Critical
\* LookaheadBias ordering violation per adjacent pair whose later timestamp is
\* strictly smaller (none for equal or increasing timestamps); fills
\* [2000, 1000] give at least one Critical LookaheadBias violation
C6_OneViolationPerInversion ==
    Done =>
      /\ FillOrderCount = Cardinality(Inversions(FillTimestamps))
      /\ EquityOrderCount = Cardinality(Inversions(EquityTimestamps))
      /\ \A k \in Inversions(FillTimestamps) :
            \E j \in DOMAIN report.violations :
               report.violations[j] = FillOrderViolation(fills, k)
      /\ \A k \in Inversions(EquityTimestamps) :
            \E j \in DOMAIN report.violations :
               report.violations[j] = EquityOrderViolation(equity_history, k)
      /\ fills = OutOfOrderFills =>
            CountWhere(report.violations,
                LAMBDA v : Is(v, "LookaheadBias", "Critical")) >= 1
      /\ fills = IncreasingFills => FillOrderCount = 0

\* two inversions in the fills and two in the equity history
C6_Witness ==
    /\ Done
    /\ fills = ReversedFills
    /\ equity_history = ReversedEquity
    /\ FillOrderCount = 2
    /\ EquityOrderCount = 2

LeverageCount ==
    CountWhere(report.violations, LAMBDA v : v.rule_id = "MaxLeverageConstraint")

\* C7: with max_leverage configured and some negative equity the report holds
\* exactly one MaxLeverageConstraint violation, Critical, citing the first
\* negative point; with max_leverage unset or no negative equity it holds none
C7_OneSolvencyViolation ==
    Done =>
      IF constraints.max_leverage.some /\ Negative(equity_history) # {}
      THEN /\ LeverageCount = 1
           /\ \E j \in DOMAIN report.violations :
                LET v == report.violations[j]
                    first == CHOOSE k \in Negative(equity_history) :
                                \A m \in Negative(equity_history) : k <= m
                IN /\ Is(v, "MaxLeverageConstraint", "Critical")
                   /\ v.evidence[1].args[1] = FmtInt(first - 1)
                   /\ v.evidence[1].args[2] = FmtInt(equity_history[first][1])
      ELSE LeverageCount = 0

\* two insolvent points, one violation, citing point #1
C7_Witness ==
    /\ Done
    /\ equity_history = ReversedEquity
    /\ constraints.max_leverage.some
    /\ LeverageCount = 1

\* C8: the report holds exactly one MaxDrawdownConstraint violation, of High
\* severity, when a max_drawdown bound is configured and the reported
\* max_drawdown is strictly greater; none when the bound is unset or the
\* reported value is less than or equal to it
C8_DrawdownConstraint ==
    Done =>
      LET n == CountWhere(report.violations, LAMBDA v : v.rule_id = "MaxDrawdownConstraint")
          h == CountWhere(report.violations, LAMBDA v : Is(v, "MaxDrawdownConstraint", "High"))
          dd == stats.max_drawdown
          c == constraints.max_drawdown
      IN /\ n = h
         /\ (c.some /\ FGt(dd, c.val)) => h = 1
         /\ (~c.some \/ FGt(c.val, dd) \/ c.val = dd) => h = 0
         /\ (c = Some(Rat(1, 10)) /\ dd = Rat(3, 20)) => h = 1
         /\ (c = Some(Rat(1, 10)) /\ dd = Rat(1, 20)) => h = 0

\* bound 0.10, reported 0.15
C8_Witness ==
    /\ Done
    /\ constraints.max_drawdown = Some(Rat(1, 10))
    /\ stats.max_drawdown = Rat(3, 20)
    /\ CountWhere(report.violations, LAMBDA v : Is(v, "MaxDrawdownConstraint", "High")) = 1

\* compute_max_drawdown has returned
Recomputed == pc \notin {"idle", "sharpe", "dd_bounds", "dd_recompute"}

\* C10: the recomputed max drawdown is never negative, is at most 1 when no
\* equity value is negative, and exceeds 1 only if some equity value is negative
\* while the running peak is positive
C10_RecomputedDrawdownRange ==
    Recomputed =>
      /\ is_finite(computed_dd)
      /\ ~FLt(computed_dd, ZERO)
      /\ Negative(equity_history) = {} => ~FGt(computed_dd, ONE)
      /\ FGt(computed_dd, ONE) =>
            \E k \in Negative(equity_history) : FGt(RunningPeak(equity_history, k), ZERO)

\* an insolvent point under a positive peak: recomputed drawdown above 1
C10_Witness ==
    /\ Recomputed
    /\ FGt(computed_dd, ONE)
    /\ Negative(equity_history) # {}

\* the call in progress has the inputs of the remembered earlier call
SameInputs ==
    /\ prev.set
    /\ stats = prev.stats
    /\ fills = prev.fills
    /\ equity_history = prev.equity_history

\* C9: on one Verifier, every call starts from a fresh empty report, a call with
\* the inputs of an earlier call returns the same violation list (rule ids,
\* severities, messages, evidence, order) whatever was called in between, and
\* the constraints never change
C9_RepeatedCallsAgree ==
    /\ pc = "sharpe" => report = CRVReport_new(LastTimestamp(equity_history))
    /\ (Done /\ SameInputs) => report.violations = prev.violations
    /\ prev.set => constraints = prev.constraints

\* a later call repeats the inputs of an earlier one, whose report was not
\* empty, after the report of a different call had been returned
C9_Witness ==
    /\ Done
    /\ SameInputs
    /\ prev.between
    /\ Len(prev.violations) >= 2
    /\ report.violations = prev.violations

============================================================================
